---------------------------- MODULE Spec2Model ----------------------------
(***************************************************************************)
(* A model of ArmaDediHelper.py: the preset parser (PresetParser), the mod *)
(* id resolution and parameter file writer, the preset name derivation,    *)
(* the preset reconciliation (check_preset_files / create_preset_files)    *)
(* and the top-level driver main.                                          *)
(*                                                                         *)
(* Python strings are sequences of one-character strings.  Paths use the   *)
(* Windows separator the program writes ("\\"); the file system is a       *)
(* record of the entries the program reads and writes.                     *)
(***************************************************************************)
EXTENDS Integers, Sequences, FiniteSets, TLC

VARIABLES
    \* a run of main
    pc,               \* the step main is at, or "exited" / "crashed"
    os_name,          \* platform.system(): "Windows" or "Linux"
    disk,             \* the file system
    html_files,       \* the *.html files of ServerProfiles, in glob's order
    failing,          \* the operation that raises in this environment
    found_presets,    \* main's presets
    selected_preset,  \* main's selected_preset
    exit_code,        \* the process's exit status, -1 while it runs
    reason,           \* what exit_program printed
    last,             \* the latest call of check_preset_files
    \* PresetParser fed one event at a time
    parser,           \* the PresetParser object
    depth,            \* open elements of the document so far
    ntok,             \* events so far
    last_tok,         \* the previous event: its type and data-type
    pending,          \* the name and link text read since the last group
    groups,           \* the complete (name, link) groups of the document so far
    mod_id_list,      \* get_mods_from_preset's result
    ppc,              \* "feeding" or "done"
    \* the string functions applied to one input
    str_in, str_name, str_ids, str_pc

vars == <<pc, os_name, disk, html_files, failing, found_presets, selected_preset,
          exit_code, reason,
          last, parser, depth, ntok, last_tok, pending, groups,
          mod_id_list, ppc, str_in, str_name, str_ids, str_pc>>
main_vars == <<pc, os_name, disk, html_files, failing, found_presets, selected_preset,
          exit_code, reason,
               last>>
parse_vars == <<parser, depth, ntok, last_tok, pending, groups, mod_id_list, ppc>>
str_vars == <<str_in, str_name, str_ids, str_pc>>

(***************************************************************************)
(* Bounds of the model.                                                    *)
(***************************************************************************)
MaxTokens == 9
MaxDepth == 2
MaxLen == 4

(***************************************************************************)
(* Python string primitives.                                               *)
(***************************************************************************)
\* str.find(ch, start) for a one-character pattern: the lowest 0-based index
\* >= start holding ch, or -1.
RECURSIVE Find(_, _, _)
Find(s, ch, start) ==
    IF start >= Len(s) THEN -1
    ELSE IF s[start + 1] = ch THEN start
    ELSE Find(s, ch, start + 1)

\* s[a:b] for 0 <= a
Slice(s, a, b) == SubSeq(s, a + 1, b)

\* s[a:]
SliceFrom(s, a) == SubSeq(s, a + 1, Len(s))

IsSpace(c) == c = " "

RECURSIVE LStrip(_)
LStrip(s) == IF s # <<>> /\ IsSpace(Head(s)) THEN LStrip(Tail(s)) ELSE s

RECURSIVE RStrip(_)
RStrip(s) ==
    IF s # <<>> /\ IsSpace(s[Len(s)]) THEN RStrip(SubSeq(s, 1, Len(s) - 1)) ELSE s

\* str.strip()
Strip(s) == RStrip(LStrip(s))

\* Python's None, and what an f-string prints for it.
None == <<"<None>">>
Fmt(x) == IF x = None THEN <<"N", "o", "n", "e">> ELSE x

(***************************************************************************)
(* PresetParser (html.parser.HTMLParser subclass).  The parser object is a *)
(* record; has_name / has_link say whether the attribute current_name /    *)
(* current_link exists on the object (handle_endtag deletes them).         *)
(***************************************************************************)
DataType == <<"d", "t">>          \* the attribute name "data-type"
Href == <<"h">>                   \* the attribute name "href"
Class == <<"c">>                  \* the attribute name "class"
DisplayName == <<"D", "N">>       \* the value "DisplayName"
Link == <<"L">>                   \* the value "Link"
ModContainer == <<"M", "C">>      \* the value "ModContainer"

\* PresetParser.__init__
ParserInit ==
    [found_mods |-> <<>>,
     has_name |-> TRUE, current_name |-> <<>>,
     has_link |-> TRUE, current_link |-> <<>>,
     current_attribute |-> <<>>]

\* The for loop of handle_starttag over attrs[i..], cur the marker so far.
RECURSIVE StartLoop(_, _, _)
StartLoop(cur, attrs, i) ==
    IF i > Len(attrs) THEN cur
    ELSE LET attr == attrs[i][1]
             value == attrs[i][2]
         IN IF attr = DataType
            THEN IF value = DisplayName THEN DisplayName
                 ELSE IF value = Link THEN Link
                 ELSE StartLoop(cur, attrs, i + 1)
            ELSE StartLoop(<<>>, attrs, i + 1)

handle_starttag(p, attrs) ==
    [p EXCEPT !.current_attribute = StartLoop(p.current_attribute, attrs, 1)]

handle_data(p, data) ==
    LET p1 == IF p.current_attribute = DisplayName
              THEN [p EXCEPT !.current_name = Strip(data), !.has_name = TRUE]
              ELSE p
    IN IF p1.current_attribute = Link
       THEN [p1 EXCEPT !.current_link = Strip(data), !.has_link = TRUE]
       ELSE p1

\* d[k] = v on a dict kept as the sequence of its items in insertion order
DictPut(d, k, v) ==
    IF \E i \in 1..Len(d) : d[i][1] = k
    THEN [i \in 1..Len(d) |-> IF d[i][1] = k THEN <<k, v>> ELSE d[i]]
    ELSE Append(d, <<k, v>>)

handle_endtag(p) ==
    LET p1 == IF p.has_name /\ p.has_link
              THEN [p EXCEPT !.found_mods = DictPut(@, p.current_name, p.current_link),
                             !.has_name = FALSE, !.current_name = <<>>,
                             !.has_link = FALSE, !.current_link = <<>>]
              ELSE p
    IN [p1 EXCEPT !.current_attribute = <<>>]

\* A document is the sequence of the parser events of its text.
StartTok(attrs) == [type |-> "start", attrs |-> attrs, data |-> <<>>]
DataTok(data) == [type |-> "data", attrs |-> <<>>, data |-> data]
EndTok == [type |-> "end", attrs |-> <<>>, data |-> <<>>]

\* parser.feed(text): the handlers in document order.
RECURSIVE Feed(_, _, _)
Feed(p, doc, i) ==
    IF i > Len(doc) THEN p
    ELSE LET t == doc[i]
         IN Feed(IF t.type = "start" THEN handle_starttag(p, t.attrs)
                 ELSE IF t.type = "data" THEN handle_data(p, t.data)
                 ELSE handle_endtag(p),
                 doc, i + 1)

(***************************************************************************)
(* Mod id resolution and the parameter string.                             *)
(***************************************************************************)
\* A mutation of ModIdOf: the slice starts at the "=" itself.
ModIdOfKeepsEq(url) ==
    LET id_index == Find(url, "=", 0)
    IN IF id_index # -1 THEN <<SliceFrom(url, id_index)>> ELSE <<>>

\* One iteration of the loop of get_mods_from_preset: what it appends.
ModIdOf(url) ==
    LET id_index == Find(url, "=", 0)
    IN IF id_index # -1 THEN <<SliceFrom(url, id_index + 1)>> ELSE <<>>

\* The loop over parser.get_found_mods().items()
RECURSIVE ModIdList(_, _)
ModIdList(found, i) ==
    IF i > Len(found) THEN <<>>
    ELSE ModIdOf(found[i][2]) \o ModIdList(found, i + 1)

\* get_mods_from_preset: readable says whether open/read/feed raised nothing.
get_mods_from_preset(readable, doc) ==
    IF ~readable THEN <<>>
    ELSE ModIdList(Feed(ParserInit, doc, 1).found_mods, 1)

\* os.path.abspath("..\\..\\workshop\\content\\107410\\{mod}"): the working
\* directory's grandparent, then workshop\content\107410\ and the id.
\* platform is "Windows" or "Linux".  On Windows abspath normalises: the ..\..
\* climb from the working directory (C:\s\p here), and a trailing separator
\* is dropped.  On Linux "\" is no separator: the text is appended to cwd.
ContentRootWin == <<"C", ":", "\\", "w", "\\", "c", "\\", "1", "0", "7", "4", "1", "0">>
ContentRootLinux ==
    <<"/", "s", "/", ".", ".", "\\", ".", ".", "\\", "w", "\\", "c", "\\",
      "1", "0", "7", "4", "1", "0", "\\">>
ModPath(platform, mod) ==
    IF platform = "Windows"
    THEN IF mod = <<>> THEN ContentRootWin ELSE ContentRootWin \o <<"\\">> \o mod
    ELSE ContentRootLinux \o mod

\* The loop of write_params_file building modparam.
RECURSIVE ModParam(_, _, _)
ModParam(platform, modlist, i) ==
    IF i > Len(modlist) THEN <<>>
    ELSE ModPath(platform, modlist[i]) \o <<";">> \o ModParam(platform, modlist, i + 1)

\* The text written to params.txt: the two lines -servermod="" and -mod="..."
ParamsText(modparam) == <<<<"-servermod=", "">>, <<"-mod=", modparam>>>>

(***************************************************************************)
(* extract_substring                                                       *)
(***************************************************************************)
\* A mutation of extract_substring: the end is searched from the start of
\* the string, not from behind the start character.
extract_substring_end_from_0(string, start_char, end_char) ==
    LET start_index == Find(string, start_char, 0)
    IN IF start_index = -1 THEN None
       ELSE LET end_index == Find(string, end_char, 0)
            IN IF end_index = -1 THEN None
               ELSE Slice(string, start_index + 1, end_index)

\* start_char and end_char are single characters at every call of the program.
extract_substring(string, start_char, end_char) ==
    LET start_index == Find(string, start_char, 0)
    IN IF start_index = -1 THEN None
       ELSE LET end_index == Find(string, end_char, start_index + 1)
            IN IF end_index = -1 THEN None
               ELSE Slice(string, start_index + 1, end_index)

\* preset_name of check_preset_files
PresetName(preset) == extract_substring(preset, "\\", ".")

(***************************************************************************)
(* The file system the program reads and writes.                           *)
(*   exe           whether glob("arma3server_x64*") matches                *)
(*   profiles_dir  whether ServerProfiles is a directory                   *)
(*   base_server, base_basic   ServerProfiles\base_server.cfg, ...         *)
(*   profile       per preset name: the directory ServerProfiles\<name>    *)
(*                 and server.cfg, basic.cfg, params.txt, start.bat        *)
(* A file is [exists, text].                                               *)
(***************************************************************************)
Absent == [exists |-> FALSE, text |-> <<>>]
File(text) == [exists |-> TRUE, text |-> text]

NoProfile ==
    [dir |-> FALSE, server_cfg |-> Absent, basic_cfg |-> Absent,
     params |-> Absent, start_bat |-> Absent]

\* Results of the program's functions: the file system afterwards, the value
\* returned, and whether an exception left the function instead.
Ret(fs, value) == [fs |-> fs, ret |-> value, raised |-> FALSE]
Raise(fs) == [fs |-> fs, ret |-> FALSE, raised |-> TRUE]

\* The text the program puts in start.bat
StartBatText == <<"start arma3server_x64.exe -cfg -config -profiles -port=2302 -par">>
\* The default configs of the GitHub repository
DefaultBasic == <<"default_basic">>
DefaultServer == <<"default_server">>

\* verify_execution_location
verify_execution_location(fs) == fs.exe

\* find_serverprofiles_dir: answer is what input() returns, mkdir_fails
\* whether os.mkdir raises.
find_serverprofiles_dir(fs, answer, mkdir_fails) ==
    IF ~fs.profiles_dir
    THEN LET create_serverProfiles_prompt == IF answer = <<>> THEN <<"Y">> ELSE answer
         IN IF create_serverProfiles_prompt = <<"Y">>
            THEN IF mkdir_fails THEN Ret(fs, FALSE)
                 ELSE Ret([fs EXCEPT !.profiles_dir = TRUE], TRUE)
            ELSE Ret(fs, FALSE)
    ELSE Ret(fs, TRUE)

\* One download of verify_default_configs: net is "ok" (status 200, file
\* written), "non200", or "raise" (urlopen, read or open raises).
Download(file, net, default) ==
    IF file.exists THEN file
    ELSE IF net = "ok" THEN File(default) ELSE file

\* verify_default_configs: net[1] is the outcome of the base_basic.cfg
\* download, net[2] that of base_server.cfg, each used only if attempted.
verify_default_configs(fs, net) ==
    IF ~fs.base_basic.exists /\ net[1] = "raise" THEN Raise(fs)
    ELSE LET fs1 == [fs EXCEPT !.base_basic = Download(@, net[1], DefaultBasic)]
         IN IF ~fs1.base_server.exists /\ net[2] = "raise" THEN Raise(fs1)
            ELSE Ret([fs1 EXCEPT !.base_server = Download(@, net[2], DefaultServer)],
                     TRUE)

\* find_base_configuration
find_base_configuration(fs, net) ==
    LET v == verify_default_configs(fs, net)
    IN IF v.raised THEN v
       ELSE Ret(v.fs, v.fs.base_server.exists /\ v.fs.base_basic.exists)

\* The directory name "ServerProfiles"
ServerProfiles ==
    <<"S", "e", "r", "v", "e", "r", "P", "r", "o", "f", "i", "l", "e", "s">>
\* A path of glob.glob("ServerProfiles/*.html"): the directory and the file
\* name joined with the platform's separator.
Sep(platform) == IF platform = "Windows" THEN "\\" ELSE "/"
PresetPath(platform, filename) == ServerProfiles \o <<Sep(platform)>> \o filename

\* find_modpresets: a preset file is [name, launcher, decode, doc]; launcher
\* says whether a line holds "Arma 3 Launcher", decode where decoding fails:
\* "ok" nowhere, "early" before that line, "late" after it.
RECURSIVE PresetScan(_, _, _, _)
PresetScan(files, platform, i, all_found_presets) ==
    IF i > Len(files) THEN all_found_presets
    ELSE LET f == files[i]
         IN IF f.decode = "early" \/ (f.decode = "late" /\ ~f.launcher)
            THEN <<>>
            ELSE PresetScan(files, platform, i + 1,
                            IF f.launcher
                            THEN Append(all_found_presets, PresetPath(platform, f.name))
                            ELSE all_found_presets)

find_modpresets(files, platform) == PresetScan(files, platform, 1, <<>>)

\* presetname in preset
IsSubstring(a, b) ==
    \E i \in 0..(Len(b) - Len(a)) : SubSeq(b, i + 1, i + Len(a)) = a

\* user_prompt_preset: the first preset holding the typed text, or ""
RECURSIVE FirstMatch(_, _, _)
FirstMatch(presets, presetname, i) ==
    IF i > Len(presets) THEN <<>>
    ELSE IF IsSubstring(presetname, presets[i]) THEN presets[i]
    ELSE FirstMatch(presets, presetname, i + 1)

user_prompt_preset(presets, presetname) == FirstMatch(presets, presetname, 1)

(***************************************************************************)
(* The preset documents of the model.  A preset file names its document:   *)
(* "empty", "no_mods" (no mod entry), "one_mod", "no_id" (a link without   *)
(* "=").                                                                   *)
(***************************************************************************)
NameElement(text) ==
    <<StartTok(<<<<DataType, DisplayName>>>>), DataTok(text), EndTok>>
LinkElement(text) ==
    <<StartTok(<<>>), StartTok(<<<<Href, text>>, <<DataType, Link>>>>), DataTok(text),
      EndTok, EndTok>>
TitleElement == <<StartTok(<<>>), DataTok(<<"A">>), EndTok>>
DocEmpty == <<>>
DocNoMods == TitleElement
DocOneMod ==
    TitleElement \o NameElement(<<"A">>) \o LinkElement(<<"?", "i", "d", "=", "7">>)
DocNoId == TitleElement \o NameElement(<<"A">>) \o LinkElement(<<"u">>)
Docs == {"empty", "no_mods", "one_mod", "no_id"}
\* presetfile.read(), as the parser's events
DocText(doc) ==
    CASE doc = "empty" -> DocEmpty
      [] doc = "no_mods" -> DocNoMods
      [] doc = "one_mod" -> DocOneMod
      [] doc = "no_id" -> DocNoId

(***************************************************************************)
(* write_params_file, create_preset_files, check_preset_files.             *)
(* fault names the one operation that raises: "none", "mkdir" (os.mkdir),  *)
(* "copy_server", "copy_basic", "bat", "params_open" (the open of          *)
(* params.txt raises) or "params_write" (its write raises).                *)
(***************************************************************************)
\* The preset file at a path, or a file that cannot be read.
NoFile == [name |-> <<>>, launcher |-> FALSE, decode |-> "early", doc |-> "empty"]
FileAt(files, platform, preset) ==
    IF \E i \in 1..Len(files) : PresetPath(platform, files[i].name) = preset
    THEN files[CHOOSE i \in 1..Len(files) : PresetPath(platform, files[i].name) = preset]
    ELSE NoFile

\* Whether a file can be created in the preset's directory: on Windows the
\* directory must exist; on Linux "ServerProfiles\<name>\x" is a file name of
\* the working directory.
CanCreateIn(platform, prof) == platform = "Linux" \/ prof.dir

\* A mutation of WriteParams: the file is opened for appending.
WriteParamsAppend(prof, platform, text, fault) ==
    IF fault = "params_open" \/ ~CanCreateIn(platform, prof)
    THEN [prof |-> prof, ok |-> FALSE]
    ELSE IF fault = "params_write"
         THEN [prof |-> [prof EXCEPT !.params = File(<<>>)], ok |-> FALSE]
         ELSE [prof |-> [prof EXCEPT !.params = File(@.text \o text)], ok |-> TRUE]

\* with open(..., "w") as paramsfile: paramsfile.write(...)
WriteParams(prof, platform, text, fault) ==
    IF fault = "params_open" \/ ~CanCreateIn(platform, prof)
    THEN [prof |-> prof, ok |-> FALSE]
    ELSE IF fault = "params_write"
         THEN [prof |-> [prof EXCEPT !.params = File(<<>>)], ok |-> FALSE]
         ELSE [prof |-> [prof EXCEPT !.params = File(text)], ok |-> TRUE]

\* A mutation of write_params_file: an unreadable preset fails the function.
write_params_file_strict(fs, files, platform, preset, preset_name, fault) ==
    LET f == FileAt(files, platform, preset)
        modlist == get_mods_from_preset(f.decode = "ok", DocText(f.doc))
        modparam == ModParam(platform, modlist, 1)
        key == Fmt(preset_name)
        w == WriteParams(fs.profile[key], platform, ParamsText(modparam), fault)
    IN IF f.decode # "ok" THEN Ret(fs, FALSE)
       ELSE Ret([fs EXCEPT !.profile[key] = w.prof], w.ok)

write_params_file(fs, files, platform, preset, preset_name, fault) ==
    LET f == FileAt(files, platform, preset)
        modlist == get_mods_from_preset(f.decode = "ok", DocText(f.doc))
        modparam == ModParam(platform, modlist, 1)
        key == Fmt(preset_name)
        w == WriteParams(fs.profile[key], platform, ParamsText(modparam), fault)
    IN Ret([fs EXCEPT !.profile[key] = w.prof], w.ok)

\* shutil.copy(src, dst) into the preset's directory: what dst holds after,
\* and whether it raised (src missing, directory missing, or the fault).
CopyOk(src, prof, platform, faulty) ==
    src.exists /\ CanCreateIn(platform, prof) /\ ~faulty

\* The two copies of create_preset_files, in one try block.
CopyConfigs(fs, platform, key, fault) ==
    LET prof == fs.profile[key]
    IN IF ~CopyOk(fs.base_server, prof, platform, fault = "copy_server")
       THEN Ret(fs, FALSE)
       ELSE LET fs1 == [fs EXCEPT !.profile[key].server_cfg = fs.base_server]
            IN IF ~CopyOk(fs.base_basic, prof, platform, fault = "copy_basic")
               THEN Ret(fs1, FALSE)
               ELSE Ret([fs1 EXCEPT !.profile[key].basic_cfg = fs.base_basic], TRUE)

\* The start script of create_preset_files.
StartScript(fs, platform, key, fault) ==
    IF platform # "Windows" THEN Ret(fs, TRUE)
    ELSE IF fault = "bat" \/ ~fs.profile[key].dir THEN Ret(fs, FALSE)
    ELSE Ret([fs EXCEPT !.profile[key].start_bat = File(StartBatText)], TRUE)

\* A mutation of create_preset_files: a failed copy is only reported.
create_preset_files_goes_on(fs, files, platform, preset, preset_name, fault, net) ==
    LET key == Fmt(preset_name)
        mk == IF fs.profile[key].dir THEN Ret(fs, TRUE)
              ELSE IF fault = "mkdir" \/ (platform = "Windows" /\ ~fs.profiles_dir)
                   THEN Ret(fs, FALSE)
                   ELSE Ret([fs EXCEPT !.profile[key].dir = TRUE], TRUE)
    IN IF ~mk.ret THEN mk
       ELSE LET v == verify_default_configs(mk.fs, net)
            IN IF v.raised THEN v
               ELSE LET c == CopyConfigs(v.fs, platform, key, fault)
                        b == StartScript(c.fs, platform, key, fault)
                    IN IF ~b.ret THEN b
                       ELSE write_params_file(b.fs, files, platform, preset,
                                              preset_name, fault)

create_preset_files(fs, files, platform, preset, preset_name, fault, net) ==
    LET key == Fmt(preset_name)
        mk == IF fs.profile[key].dir THEN Ret(fs, TRUE)
              ELSE IF fault = "mkdir" \/ (platform = "Windows" /\ ~fs.profiles_dir)
                   THEN Ret(fs, FALSE)
                   ELSE Ret([fs EXCEPT !.profile[key].dir = TRUE], TRUE)
    IN IF ~mk.ret THEN mk
       ELSE LET v == verify_default_configs(mk.fs, net)
            IN IF v.raised THEN v
               ELSE LET c == CopyConfigs(v.fs, platform, key, fault)
                    IN IF ~c.ret THEN c
                       ELSE LET b == StartScript(c.fs, platform, key, fault)
                            IN IF ~b.ret THEN b
                               ELSE write_params_file(b.fs, files, platform, preset,
                                                      preset_name, fault)

\* str.upper() on the characters an answer is made of
UpperChar(c) == CASE c = "y" -> "Y" [] c = "n" -> "N" [] OTHER -> c
Upper(s) == [i \in 1..Len(s) |-> UpperChar(s[i])]

\* int(s): defined on the strings of decimal digits
Digits == {"0", "1", "2", "3", "4", "5", "6", "7", "8", "9"}
DigitVal(c) ==
    CASE c = "0" -> 0 [] c = "1" -> 1 [] c = "2" -> 2 [] c = "3" -> 3 [] c = "4" -> 4
      [] c = "5" -> 5 [] c = "6" -> 6 [] c = "7" -> 7 [] c = "8" -> 8 [] c = "9" -> 9
IsInt(s) == s # <<>> /\ \A i \in 1..Len(s) : s[i] \in Digits
RECURSIVE IntOf(_)
IntOf(s) ==
    IF s = <<>> THEN 0
    ELSE 10 * IntOf(SubSeq(s, 1, Len(s) - 1)) + DigitVal(s[Len(s)])

\* os.path.isdir(preset_path), preset_path = "ServerProfiles\<name>\": on
\* Linux no directory the program makes has this name.
PresetDirFound(fs, platform, preset_name) ==
    platform = "Windows" /\ fs.profile[Fmt(preset_name)].dir

\* A mutation of check_preset_files: choice 2 regenerates everything too.
check_preset_files_2_as_3(fs, files, platform, preset, answer, fault, net) ==
    LET preset_name == PresetName(preset)
    IN IF ~PresetDirFound(fs, platform, preset_name)
       THEN LET create_preset_prompt == IF answer = <<>> THEN <<"Y">> ELSE answer
            IN IF Upper(create_preset_prompt) = <<"Y">>
               THEN create_preset_files(fs, files, platform, preset, preset_name,
                                        fault, net)
               ELSE Ret(fs, TRUE)
       ELSE IF answer # <<>> /\ ~IsInt(answer) THEN Ret(fs, FALSE)
       ELSE LET recreate_preset_prompt == IF answer = <<>> THEN 1 ELSE IntOf(answer)
            IN IF recreate_preset_prompt \in {2, 3}
               THEN create_preset_files(fs, files, platform, preset, preset_name,
                                        fault, net)
               ELSE Ret(fs, TRUE)

\* A mutation of check_preset_files: a declined creation still makes the
\* directory.
check_preset_files_mkdir_first(fs, files, platform, preset, answer, fault, net) ==
    LET preset_name == PresetName(preset)
        key == Fmt(preset_name)
    IN IF ~PresetDirFound(fs, platform, preset_name)
       THEN LET create_preset_prompt == IF answer = <<>> THEN <<"Y">> ELSE answer
            IN IF Upper(create_preset_prompt) = <<"Y">>
               THEN create_preset_files(fs, files, platform, preset, preset_name,
                                        fault, net)
               ELSE Ret([fs EXCEPT !.profile[key].dir = TRUE], TRUE)
       ELSE IF answer # <<>> /\ ~IsInt(answer) THEN Ret(fs, FALSE)
       ELSE LET recreate_preset_prompt == IF answer = <<>> THEN 1 ELSE IntOf(answer)
            IN IF recreate_preset_prompt = 2
               THEN write_params_file(fs, files, platform, preset, preset_name, fault)
               ELSE IF recreate_preset_prompt = 3
               THEN create_preset_files(fs, files, platform, preset, preset_name,
                                        fault, net)
               ELSE Ret(fs, TRUE)

check_preset_files(fs, files, platform, preset, answer, fault, net) ==
    LET preset_name == PresetName(preset)
    IN IF ~PresetDirFound(fs, platform, preset_name)
       THEN LET create_preset_prompt == IF answer = <<>> THEN <<"Y">> ELSE answer
            IN IF Upper(create_preset_prompt) = <<"Y">>
               THEN create_preset_files(fs, files, platform, preset, preset_name,
                                        fault, net)
               ELSE Ret(fs, TRUE)
       ELSE IF answer # <<>> /\ ~IsInt(answer) THEN Ret(fs, FALSE)
       ELSE LET recreate_preset_prompt == IF answer = <<>> THEN 1 ELSE IntOf(answer)
            IN IF recreate_preset_prompt = 2
               THEN write_params_file(fs, files, platform, preset, preset_name, fault)
               ELSE IF recreate_preset_prompt = 3
               THEN create_preset_files(fs, files, platform, preset, preset_name,
                                        fault, net)
               ELSE Ret(fs, TRUE)

(***************************************************************************)
(* The string functions on every string of a small alphabet: the preset    *)
(* name derivation and the mod id resolution.                              *)
(***************************************************************************)
StrAlphabet == {"\\", ".", "=", "a"}
Strings == UNION {[1..n -> StrAlphabet] : n \in 0..MaxLen}

MyPresetHtml == <<"M", "y", "P", "r", "e", "s", "e", "t", ".", "h", "t", "m", "l">>
\* ServerProfiles\MyPreset.html
MyPresetPath == ServerProfiles \o <<"\\">> \o MyPresetHtml

StrIdle ==
    /\ str_in = <<>>
    /\ str_name = None
    /\ str_ids = <<>>
    /\ str_pc = "idle"

StrInit ==
    /\ str_in \in Strings \cup {MyPresetPath}
    /\ str_name = None
    /\ str_ids = <<>>
    /\ str_pc = "input"

\* check_preset_files deriving preset_name from the path str_in
DerivePresetName ==
    /\ str_pc = "input"
    /\ str_name' = PresetName(str_in)
    /\ str_pc' = "named"
    /\ UNCHANGED <<str_in, str_ids>>

\* get_mods_from_preset's loop on a found_mods holding the url str_in
ResolveModIds ==
    /\ str_pc = "input"
    /\ str_ids' = ModIdList(<<<<<<"n">>, str_in>>>>, 1)
    /\ str_pc' = "resolved"
    /\ UNCHANGED <<str_in, str_name>>

(***************************************************************************)
(* PresetParser on the events of a well-formed document, one at a time.    *)
(***************************************************************************)
StartTags ==
    {<<>>,
     <<<<DataType, DisplayName>>>>,
     <<<<Href, <<"x">>>>, <<DataType, Link>>>>,
     <<<<Class, <<"x">>>>>>,
     <<<<DataType, ModContainer>>>>}
Texts == {<<"A">>, <<" ", "B", " ">>, <<"u", "=", "1">>, <<" ">>}

\* The data-type an element declares, if it is a name or a link element.
DeclaredType(attrs) ==
    IF \E i \in 1..Len(attrs) : attrs[i] = <<DataType, DisplayName>> THEN DisplayName
    ELSE IF \E i \in 1..Len(attrs) : attrs[i] = <<DataType, Link>> THEN Link
    ELSE <<>>

NoPending == [has_name |-> FALSE, name |-> <<>>, has_link |-> FALSE, link |-> <<>>]

ParseIdle ==
    /\ parser = ParserInit
    /\ depth = 0
    /\ ntok = 0
    /\ last_tok = [type |-> "none", declared |-> <<>>]
    /\ pending = NoPending
    /\ groups = <<>>
    /\ mod_id_list = <<>>
    /\ ppc = "idle"

ParseInit ==
    /\ parser = ParserInit
    /\ depth = 0
    /\ ntok = 0
    /\ last_tok = [type |-> "none", declared |-> <<>>]
    /\ pending = NoPending
    /\ groups = <<>>
    /\ mod_id_list = <<>>
    /\ ppc = "feeding"

HandleStarttag ==
    /\ ppc = "feeding"
    /\ ntok < MaxTokens
    /\ depth < MaxDepth
    /\ \E attrs \in StartTags :
          /\ parser' = handle_starttag(parser, attrs)
          /\ last_tok' = [type |-> "start", declared |-> DeclaredType(attrs)]
    /\ depth' = depth + 1
    /\ ntok' = ntok + 1
    /\ UNCHANGED <<pending, groups, mod_id_list, ppc>>

\* The text of an element directly after its start tag is the element's
\* text; the parser hands consecutive text over as one event.
HandleData ==
    /\ ppc = "feeding"
    /\ ntok < MaxTokens
    /\ last_tok.type # "data"
    /\ \E data \in Texts :
          /\ parser' = handle_data(parser, data)
          /\ pending' =
                IF last_tok.type = "start" /\ last_tok.declared = DisplayName
                THEN [pending EXCEPT !.has_name = TRUE, !.name = Strip(data)]
                ELSE IF last_tok.type = "start" /\ last_tok.declared = Link
                THEN [pending EXCEPT !.has_link = TRUE, !.link = Strip(data)]
                ELSE pending
    /\ last_tok' = [type |-> "data", declared |-> <<>>]
    /\ ntok' = ntok + 1
    /\ UNCHANGED <<depth, groups, mod_id_list, ppc>>

HandleEndtag ==
    /\ ppc = "feeding"
    /\ ntok < MaxTokens
    /\ depth > 0
    /\ parser' = handle_endtag(parser)
    /\ IF pending.has_name /\ pending.has_link
       THEN /\ groups' = Append(groups, <<pending.name, pending.link>>)
            /\ pending' = NoPending
       ELSE UNCHANGED <<groups, pending>>
    /\ last_tok' = [type |-> "end", declared |-> <<>>]
    /\ depth' = depth - 1
    /\ ntok' = ntok + 1
    /\ UNCHANGED <<mod_id_list, ppc>>

\* The end of the document: the loop of get_mods_from_preset after feed.
GetMods ==
    /\ ppc = "feeding"
    /\ depth = 0
    /\ mod_id_list' = ModIdList(parser.found_mods, 1)
    /\ ppc' = "done"
    /\ UNCHANGED <<parser, depth, ntok, last_tok, pending, groups>>

(***************************************************************************)
(* A run of main, and the program started again on the same file system.   *)
(***************************************************************************)
Faults == {"none", "mkdir", "copy_server", "copy_basic", "bat", "params_open",
           "params_write"}
NetOutcomes == {"ok", "non200", "raise"}
\* What the user may type at a prompt.
Answers == {<<>>, <<"Y">>, <<"y">>, <<"n">>, <<"2">>, <<"3">>, <<"4">>}
TypedNames == {<<>>, <<"M", "y">>, <<"a">>, <<"z">>}

ABHtml == <<"a", ".", "b", ".", "h", "t", "m", "l">>

PresetFile(name, launcher, decode, doc) ==
    [name |-> name, launcher |-> launcher, decode |-> decode, doc |-> doc]
FirstFiles ==
    {PresetFile(MyPresetHtml, TRUE, "ok", d) : d \in Docs}
    \cup {PresetFile(MyPresetHtml, TRUE, "late", "one_mod"),
          PresetFile(MyPresetHtml, FALSE, "ok", "empty"),
          PresetFile(MyPresetHtml, FALSE, "early", "empty")}
SecondFiles ==
    {PresetFile(ABHtml, TRUE, "ok", "one_mod"), PresetFile(ABHtml, FALSE, "late", "empty")}
FileChoices ==
    {<<>>} \cup {<<f>> : f \in FirstFiles}
           \cup {<<f, g>> : f \in {PresetFile(MyPresetHtml, l, "ok", "one_mod") :
                                      l \in BOOLEAN},
                            g \in SecondFiles}

\* The names a preset directory can have.
ProfileKeys(platform) ==
    {Fmt(PresetName(PresetPath(platform, n))) : n \in {MyPresetHtml, ABHtml}}

\* A preset directory of an earlier run whose files the user has edited, and
\* one that holds nothing.
EditedProfile ==
    [dir |-> TRUE, server_cfg |-> File(<<"edited_server">>),
     basic_cfg |-> File(<<"edited_basic">>),
     params |-> File(ParamsText(<<"o", "l", "d", ";">>)),
     start_bat |-> File(<<"edited_bat">>)]
EmptyProfile == [NoProfile EXCEPT !.dir = TRUE]

\* Without the server or without ServerProfiles nothing else is there.
BareDisks(platform) ==
    {[exe |-> e, profiles_dir |-> FALSE, base_server |-> Absent, base_basic |-> Absent,
      profile |-> [k \in ProfileKeys(platform) |-> NoProfile]] : e \in BOOLEAN}
BaseConfigs ==
    {<<Absent, Absent>>, <<File(<<"local_server">>), Absent>>,
     <<File(<<"local_server">>), File(<<"local_basic">>)>>}
InitialDisks(platform) ==
    BareDisks(platform)
    \cup
    {[exe |-> TRUE, profiles_dir |-> TRUE, base_server |-> b[1], base_basic |-> b[2],
      profile |-> pr] :
        b \in BaseConfigs,
        pr \in {[k \in ProfileKeys(platform) |-> p] :
                   p \in {NoProfile, EditedProfile, EmptyProfile}}}

NoCall ==
    [called |-> FALSE, repeat |-> FALSE, preset |-> <<>>, answer |-> <<>>,
     before |-> <<>>, after |-> <<>>, ret |-> FALSE, raised |-> FALSE]

MainIdle ==
    /\ pc = "idle"
    /\ os_name = "Windows"
    /\ disk = <<>>
    /\ html_files = <<>>
    /\ failing = "none"
    /\ found_presets = <<>>
    /\ selected_preset = <<>>
    /\ exit_code = -1
    /\ reason = ""
    /\ last = NoCall

MainInit ==
    /\ pc = "verify_execution_location"
    /\ os_name \in {"Windows", "Linux"}
    /\ disk \in InitialDisks(os_name)
    /\ html_files \in (IF disk.profiles_dir THEN FileChoices ELSE {<<>>})
    /\ failing \in Faults
    /\ found_presets = <<>>
    /\ selected_preset = <<>>
    /\ exit_code = -1
    /\ reason = ""
    /\ last = NoCall

\* exit_program(reason): prints the reason, sys.exit(0)
ExitProgram(why) ==
    /\ pc' = "exited"
    /\ exit_code' = 0
    /\ reason' = why

\* An exception nothing catches: the interpreter prints the traceback and
\* the process ends with status 1.
Crash ==
    /\ pc' = "crashed"
    /\ exit_code' = 1
    /\ reason' = ""

Continue(next) ==
    /\ pc' = next
    /\ UNCHANGED <<exit_code, reason>>

VerifyExecutionLocation ==
    /\ pc = "verify_execution_location"
    /\ IF verify_execution_location(disk)
       THEN Continue("find_serverprofiles_dir")
       ELSE ExitProgram("Could not find server files.")
    /\ UNCHANGED <<os_name, disk, html_files, failing, found_presets, selected_preset, last>>

FindServerprofilesDir ==
    /\ pc = "find_serverprofiles_dir"
    /\ \E answer \in Answers :
          LET r == find_serverprofiles_dir(disk, answer, failing = "mkdir")
          IN /\ disk' = r.fs
             /\ IF r.ret
                THEN Continue("find_base_configuration")
                ELSE ExitProgram("Could not find ServerProfiles directory.")
    /\ UNCHANGED <<os_name, html_files, failing, found_presets, selected_preset, last>>

\* The downloads of verify_default_configs happen only for a missing file.
NetChoices(fs) ==
    {net \in NetOutcomes \X NetOutcomes :
        /\ fs.base_basic.exists => net[1] = "ok"
        /\ fs.base_server.exists => net[2] = "ok"}

FindBaseConfiguration ==
    /\ pc = "find_base_configuration"
    /\ \E net \in NetChoices(disk) :
          LET r == find_base_configuration(disk, net)
          IN /\ disk' = r.fs
             /\ IF r.raised THEN Crash
                ELSE IF r.ret THEN Continue("find_modpresets")
                ELSE ExitProgram(
                        "Could not find base configuration files in ServerProfiles.")
    /\ UNCHANGED <<os_name, html_files, failing, found_presets, selected_preset, last>>

FindModpresets ==
    /\ pc = "find_modpresets"
    /\ found_presets' = find_modpresets(html_files, os_name)
    /\ IF Len(found_presets') = 0
       THEN ExitProgram("Could not find any presets to use.")
       ELSE Continue("user_prompt_preset")
    /\ UNCHANGED <<os_name, disk, html_files, failing, selected_preset, last>>

UserPromptPreset ==
    /\ pc = "user_prompt_preset"
    /\ \E presetname \in TypedNames :
          selected_preset' = user_prompt_preset(found_presets, presetname)
    /\ IF selected_preset' = <<>>
       THEN ExitProgram("Preset selection failed.")
       ELSE Continue("check_preset_files")
    /\ UNCHANGED <<os_name, disk, html_files, failing, found_presets, last>>

CheckPresetFiles ==
    /\ pc = "check_preset_files"
    /\ \E answer \in Answers, net \in NetChoices(disk) :
          LET r == check_preset_files(disk, html_files, os_name, selected_preset, answer,
                                      failing, net)
          IN /\ disk' = r.fs
             /\ last' = [called |-> TRUE,
                         repeat |-> /\ last.called
                                    /\ last.preset = selected_preset
                                    /\ last.answer = answer
                                    /\ last.after = disk,
                         preset |-> selected_preset, answer |-> answer,
                         before |-> disk, after |-> r.fs, ret |-> r.ret,
                         raised |-> r.raised]
             /\ IF r.raised THEN Crash
                ELSE IF r.ret THEN Continue("print_server_instructions")
                ELSE ExitProgram("Failed to create server files.")
    /\ UNCHANGED <<os_name, html_files, failing, found_presets, selected_preset>>

\* print_server_instructions, then exit_program("Script complete.")
Finish ==
    /\ pc = "print_server_instructions"
    /\ ExitProgram("Script complete.")
    /\ UNCHANGED <<os_name, disk, html_files, failing, found_presets, selected_preset, last>>

\* The user starts the program again in the same directory.
Rerun ==
    /\ pc \in {"exited", "crashed"}
    /\ pc' = "verify_execution_location"
    /\ found_presets' = <<>>
    /\ selected_preset' = <<>>
    /\ exit_code' = -1
    /\ reason' = ""
    /\ UNCHANGED <<os_name, disk, html_files, failing, last>>

(***************************************************************************)
(* The specifications.                                                     *)
(***************************************************************************)
Init == MainInit /\ ParseIdle /\ StrIdle
Next ==
    \/ VerifyExecutionLocation /\ UNCHANGED <<parse_vars, str_vars>>
    \/ FindServerprofilesDir /\ UNCHANGED <<parse_vars, str_vars>>
    \/ FindBaseConfiguration /\ UNCHANGED <<parse_vars, str_vars>>
    \/ FindModpresets /\ UNCHANGED <<parse_vars, str_vars>>
    \/ UserPromptPreset /\ UNCHANGED <<parse_vars, str_vars>>
    \/ CheckPresetFiles /\ UNCHANGED <<parse_vars, str_vars>>
    \/ Finish /\ UNCHANGED <<parse_vars, str_vars>>
    \/ Rerun /\ UNCHANGED <<parse_vars, str_vars>>
Spec == Init /\ [][Next]_vars

ParseSpecInit == MainIdle /\ ParseInit /\ StrIdle
ParseNext ==
    \/ HandleStarttag /\ UNCHANGED <<main_vars, str_vars>>
    \/ HandleData /\ UNCHANGED <<main_vars, str_vars>>
    \/ HandleEndtag /\ UNCHANGED <<main_vars, str_vars>>
    \/ GetMods /\ UNCHANGED <<main_vars, str_vars>>
SpecParse == ParseSpecInit /\ [][ParseNext]_vars

StrSpecInit == MainIdle /\ ParseIdle /\ StrInit
StrNext ==
    \/ DerivePresetName /\ UNCHANGED <<main_vars, parse_vars>>
    \/ ResolveModIds /\ UNCHANGED <<main_vars, parse_vars>>
SpecStr == StrSpecInit /\ [][StrNext]_vars

(***************************************************************************)
(* What the claims speak of.                                               *)
(***************************************************************************)
HasChar(s, ch) == \E i \in 1..Len(s) : s[i] = ch
FirstAt(s, ch) == CHOOSE i \in 1..Len(s) : s[i] = ch /\ \A j \in 1..(i - 1) : s[j] # ch
LastAt(s, ch) ==
    CHOOSE i \in 1..Len(s) : s[i] = ch /\ \A j \in (i + 1)..Len(s) : s[j] # ch
\* The first "." behind position i
NextAt(s, ch, i) ==
    CHOOSE k \in (i + 1)..Len(s) : s[k] = ch /\ \A j \in (i + 1)..(k - 1) : s[j] # ch

\* The preset directory of the latest call of check_preset_files, before
\* and after it.
LastKey == Fmt(PresetName(last.preset))
Before == last.before.profile[LastKey]
After == last.after.profile[LastKey]
\* The states of the preset at the call: its directory was found, or not.
WasPresent == last.called /\ os_name = "Windows" /\ Before.dir
WasAbsent == last.called /\ ~(os_name = "Windows" /\ Before.dir)
Accepted == last.answer \in {<<>>, <<"Y">>, <<"y">>}
\* The calls that reach create_preset_files, and those that reach the
\* writing of params.txt without an earlier failure.
Materialized == (WasAbsent /\ Accepted) \/ (WasPresent /\ last.answer = <<"3">>)
LastFile == FileAt(html_files, os_name, last.preset)
LastModList == get_mods_from_preset(LastFile.decode = "ok", DocText(LastFile.doc))
FreshParams == File(ParamsText(ModParam(os_name, LastModList, 1)))
EmptyParams == File(<<<<"-servermod=", "">>, <<"-mod=", <<>>>>>>)
AllThreeFiles(prof) ==
    prof.dir /\ prof.server_cfg.exists /\ prof.basic_cfg.exists /\ prof.params.exists

\* C1 as stated: the id list holds exactly the text after the last "=" of a
\* url that has one, and nothing for a url without "=".
C1_IdAfterLastEq ==
    str_pc = "resolved" =>
        IF HasChar(str_in, "=")
        THEN str_ids = <<SubSeq(str_in, LastAt(str_in, "=") + 1, Len(str_in))>>
        ELSE str_ids = <<>>

\* C1 amended: the id list holds exactly the text after the first "=" of a
\* url that has one, and nothing for a url without "=".
C1_IdAfterFirstEq ==
    str_pc = "resolved" =>
        IF HasChar(str_in, "=")
        THEN str_ids = <<SubSeq(str_in, FirstAt(str_in, "=") + 1, Len(str_in))>>
        ELSE str_ids = <<>>

\* A url with two "=" resolved: the id keeps the second "=".
C1_Witness ==
    /\ str_pc = "resolved"
    /\ str_in = <<"=", "a", "=", "a">>
    /\ str_ids = <<<<"a", "=", "a">>>>

\* C2: with the preset's directory found and no operation failing, choice 2
\* rewrites params.txt and nothing else, choice 3 overwrites server.cfg,
\* basic.cfg and params.txt (and start.bat), the default and any other
\* integer change nothing, and each reports success; choice 2 never touches
\* server.cfg or basic.cfg.
C2_PresentChoices ==
    WasPresent =>
        /\ last.answer = <<"2">> =>
              /\ After.server_cfg = Before.server_cfg
              /\ After.basic_cfg = Before.basic_cfg
              /\ failing = "none" =>
                    /\ last.ret
                    /\ last.after =
                          [last.before EXCEPT !.profile[LastKey].params = FreshParams]
        /\ (last.answer = <<"3">> /\ failing = "none") =>
              /\ last.ret
              /\ last.after =
                    [last.before EXCEPT
                        !.profile[LastKey].server_cfg = last.before.base_server,
                        !.profile[LastKey].basic_cfg = last.before.base_basic,
                        !.profile[LastKey].start_bat = File(StartBatText),
                        !.profile[LastKey].params = FreshParams]
        /\ last.answer \in {<<>>, <<"4">>} =>
              /\ last.ret
              /\ last.after = last.before

\* Choice 2 on a preset whose files the user edited: params.txt is new, the
\* edited server.cfg is still there.
C2_Witness ==
    /\ WasPresent
    /\ last.answer = <<"2">>
    /\ last.ret
    /\ Before.params # After.params
    /\ After.params = FreshParams
    /\ After.server_cfg = File(<<"edited_server">>)

\* C3 as stated: every run of main ends through exit_program, with a
\* reason printed and exit status zero.
C3_EveryFailureExitsZero ==
    pc \in {"exited", "crashed"} => (exit_code = 0 /\ reason # "")

\* C4 as stated: at the end of a well-formed document found_mods holds the
\* document's complete (name, link) groups, as many and in document order.
C4_PairsAreTheGroups ==
    ppc = "done" =>
        /\ Len(parser.found_mods) = Len(groups)
        /\ parser.found_mods = groups

\* C5 as stated: the preset name is the text between the last "\" and the
\* last "." of the path, MyPreset for ServerProfiles\MyPreset.html.
C5_NameBetweenLastSepAndLastDot ==
    str_pc = "named" =>
        /\ (/\ HasChar(str_in, "\\")
            /\ HasChar(str_in, ".")
            /\ LastAt(str_in, "\\") < LastAt(str_in, ".")) =>
              str_name = SubSeq(str_in, LastAt(str_in, "\\") + 1, LastAt(str_in, ".") - 1)
        /\ str_in = MyPresetPath => str_name = <<"M", "y", "P", "r", "e", "s", "e", "t">>

\* C5 amended: the preset name is the text between the first "\" of the path
\* and the first "." behind it, None when there is no such "\" or ".";
\* MyPreset for ServerProfiles\MyPreset.html.
C5_NameBetweenFirstSepAndNextDot ==
    str_pc = "named" =>
        /\ IF /\ HasChar(str_in, "\\")
              /\ \E k \in (FirstAt(str_in, "\\") + 1)..Len(str_in) : str_in[k] = "."
           THEN str_name = SubSeq(str_in, FirstAt(str_in, "\\") + 1,
                                  NextAt(str_in, ".", FirstAt(str_in, "\\")) - 1)
           ELSE str_name = None
        /\ str_in = MyPresetPath => str_name = <<"M", "y", "P", "r", "e", "s", "e", "t">>

\* The name derived from ServerProfiles\MyPreset.html
C5_Witness ==
    /\ str_pc = "named"
    /\ str_in = MyPresetPath
    /\ str_name = <<"M", "y", "P", "r", "e", "s", "e", "t">>

\* C6: a call of check_preset_files that repeats the call before it (same
\* preset, same answer, same environment, on the files the first call left)
\* leaves the files as the first call left them.
C6_RepeatChangesNothing ==
    last.repeat => last.after = last.before

\* Everything regenerated a second time, successfully.
C6_Witness ==
    /\ last.repeat
    /\ last.answer = <<"3">>
    /\ last.ret
    /\ AllThreeFiles(After)
    /\ After.params = FreshParams

\* C7: with the preset's directory not found, an accepted creation that
\* reports success leaves the directory with server.cfg, basic.cfg and
\* params.txt, and it reports success when no operation fails; a declined
\* creation changes nothing and reports success.
C7_AbsentCreatedOrUntouched ==
    WasAbsent =>
        /\ Accepted =>
              /\ failing = "none" => last.ret
              /\ last.ret => AllThreeFiles(After)
        /\ ~Accepted =>
              /\ last.ret
              /\ last.after = last.before

\* A directory that did not exist, created with its three files.
C7_Witness ==
    /\ WasAbsent
    /\ ~Before.dir
    /\ last.answer = <<"y">>
    /\ last.ret
    /\ AllThreeFiles(After)
    /\ After.server_cfg = last.before.base_server

\* C8: when create_preset_files runs (its directory made or there): a failed
\* copy of server.cfg leaves the files as they were and params.txt
\* unwritten; a failed copy of basic.cfg leaves the new server.cfg in place
\* and nothing else changed; a failed write of params.txt leaves both copies
\* in place; each makes check_preset_files return failure, as a failed
\* write of params.txt does under choice 2.
C8_FailureStopsAndKeepsFiles ==
    /\ (Materialized /\ After.dir) =>
          /\ failing = "copy_server" =>
                /\ ~last.ret
                /\ After = [Before EXCEPT !.dir = TRUE]
          /\ failing = "copy_basic" =>
                /\ ~last.ret
                /\ After = [Before EXCEPT !.dir = TRUE,
                                          !.server_cfg = last.before.base_server]
          /\ failing \in {"params_open", "params_write"} =>
                /\ ~last.ret
                /\ After.server_cfg = last.before.base_server
                /\ After.basic_cfg = last.before.base_basic
    /\ (WasPresent /\ last.answer = <<"2">>
          /\ failing \in {"params_open", "params_write"}) => ~last.ret

\* The copy of basic.cfg failed: server.cfg was written and stays, params.txt
\* was never written, failure is returned.
C8_Witness ==
    /\ Materialized
    /\ failing = "copy_basic"
    /\ ~last.ret
    /\ ~Before.server_cfg.exists
    /\ After.server_cfg = last.before.base_server
    /\ ~After.basic_cfg.exists
    /\ ~After.params.exists

\* C9: when the preset yields no mod id (no complete entry, or the file
\* cannot be read) and no operation fails, every call that writes
\* params.txt reports success and leaves it with an empty mod list.
C9_NoModsStillWritten ==
    (/\ Materialized \/ (WasPresent /\ last.answer = <<"2">>)
     /\ LastModList = <<>>
     /\ failing = "none") =>
        /\ last.ret
        /\ After.params = EmptyParams

\* A preset file that cannot be decoded: params.txt written with no mods.
C9_Witness ==
    /\ Materialized
    /\ LastFile.decode = "late"
    /\ last.ret
    /\ After.params = EmptyParams

\* C10 as stated: every id resolved from a url that has an "=" is non-empty.
C10_IdNonEmpty ==
    (str_pc = "resolved" /\ HasChar(str_in, "=")) =>
        \A i \in 1..Len(str_ids) : str_ids[i] # <<>>

=============================================================================
